---------------------------- MODULE Spec2Model ----------------------------
(***************************************************************************)
(* Leave-request management page (LeavePage) and attendance page           *)
(* (AttendancePage).  Seven specifications share this module:              *)
(*   Spec            the leave-request lifecycle as driven from leave      *)
(*                   pages (queries, approve / reject / cancel, toasts)    *)
(*   SpecBalance     calculateLeaveBalance applied to bounded lists        *)
(*   SpecAttendance  the attendance edit dialog and its update mutation    *)
(*   SpecDuration    calculateDuration applied to bounded date ranges      *)
(*   SpecStatus      the rows of the All Attendance table                  *)
(*   SpecQueries     the queries of both pages of one deployment           *)
(*   SpecCalendar    the date selection of the attendance page             *)
(***************************************************************************)
EXTENDS Integers, Sequences, FiniteSets, Bags, TLC

VARIABLES
    \* --- backend ---
    leaveRequests,     \* the stored leave requests: id -> [userId, status, approvedById]
    \* --- one LeavePage per browser session ---
    user,              \* useAuth().user of the page: a user id, or NoUser
    activeTab,         \* useState("my-requests")
    myLeaveRequests,   \* data of the query {userId}: id -> displayed status, or "absent"
    pendingRequests,   \* data of the query {status: "pending"}: the ids of its rows
    staleMy,           \* the {userId} query has to be (re)fetched
    stalePending,      \* the {status: "pending"} query has to be (re)fetched
    mutations,         \* the bag of the mutations in flight
    lastToast,         \* the last toast({...}) call of each page, or NoToast
    toastCount,        \* the number of toast({...}) calls of each page
    \* --- the AttendancePage of one session ---
    attendance,        \* backend: the attendance record of each employee on the date
    attUser,           \* useAuth().user of the page
    attTab,            \* the active tab of <Tabs defaultValue="my-attendance">
    employees,         \* data of the employee directory query
    dateAttendance,    \* data of the attendance-by-date query
    dateLoaded,        \* the attendance-by-date query has data
    attStale,          \* the attendance-by-date query has to be (re)fetched
    isEditDialogOpen,  \* useState(false)
    editingRecord,     \* useState(null): the row being edited
    form,              \* react-hook-form: [values, defaultValues]
    updateMutations,   \* the bag of the update mutations in flight
    attLastToast,      \* the last toast({...}) call of the page, or NoToast
    attToastCount,     \* the number of toast({...}) calls of the page
    \* --- balance cards ---
    balanceRequests,   \* myLeaveRequests as the balance cards read it (a list of requests)
    balances,          \* what calculateLeaveBalance returned for each type at the last render
    \* --- the queries that feed no mutation ---
    leaveEmployees,    \* LeavePage: data of the employee directory query of each page
    myAttendance,      \* AttendancePage: data of the {userId} attendance query
    myAttendanceStale, \* the {userId} attendance query has to be (re)fetched
    allLeaveRequests,  \* AttendancePage: data of the leave-requests query
    allLeaveStale,     \* the leave-requests query has to be (re)fetched
    \* --- the All Attendance view ---
    selectedDate,      \* useState(today at midnight)
    allEmployeeAttendanceData,  \* the rows computed at the last render
    attendanceSummary, \* the counts of the Present, Absent and On Leave cards
    currentDay,        \* the calendar day new Date() falls on
    \* --- the Duration column ---
    durationArgs,      \* the start and end a row hands to calculateDuration
    duration           \* what calculateDuration returned for them

leaveVars == <<leaveRequests, user, activeTab, myLeaveRequests, pendingRequests,
               staleMy, stalePending, mutations, lastToast, toastCount>>

balanceVars == <<balanceRequests, balances>>

attendanceVars == <<attendance, attUser, attTab, employees, dateAttendance, dateLoaded, attStale,
                    isEditDialogOpen, editingRecord, form, updateMutations,
                    attLastToast, attToastCount>>

queryVars == <<leaveEmployees, myAttendance, myAttendanceStale, allLeaveRequests, allLeaveStale>>

viewVars == <<selectedDate, allEmployeeAttendanceData, attendanceSummary, currentDay>>

durationVars == <<durationArgs, duration>>

vars == <<leaveVars, attendanceVars, balanceVars, queryVars, viewVars, durationVars>>

nonLeaveVars == <<attendanceVars, balanceVars, queryVars, viewVars, durationVars>>

nonAttendanceVars == <<leaveVars, balanceVars, queryVars, viewVars, durationVars>>

nonBalanceVars == <<leaveVars, attendanceVars, queryVars, viewVars, durationVars>>

nonDurationVars == <<leaveVars, attendanceVars, balanceVars, queryVars, viewVars>>

(***************************************************************************)
(* Dates.  A date is a local calendar day, numbered 0..MaxDay.  Day 0 is a *)
(* Thursday, so the days are Thu Fri Sat Sun Mon ...                       *)
(***************************************************************************)
MaxDay == 4

Days == 0..MaxDay

\* Date.getDay(): 0 = Sunday ... 6 = Saturday; day 0 of the model is a Thursday
getDay(d) == (d + 4) % 7

\* date-fns isWeekend: Saturday or Sunday
isWeekend(d) == getDay(d) = 0 \/ getDay(d) = 6

(***************************************************************************)
(* date-fns eachDayOfInterval({start, end}).  For start <= end it is the   *)
(* list of the days start..end.  For start > end the result depends on the *)
(* date-fns release the page is built against: releases before 3.0 throw   *)
(* RangeError("Invalid interval"), releases from 3.0 on return the days of *)
(* the interval in reverse order.  `throws` selects the release.           *)
(***************************************************************************)
eachDayOfInterval(start, end, throws) ==
    IF start <= end
    THEN [threw |-> FALSE, days |-> [i \in 1..(end - start + 1) |-> start + i - 1]]
    ELSE IF throws
         THEN [threw |-> TRUE, days |-> <<>>]
         ELSE [threw |-> FALSE, days |-> [i \in 1..(start - end + 1) |-> start - i + 1]]

\* allDays.filter(day => !isWeekend(day)).length
businessDaysLength(allDays) ==
    Cardinality({i \in DOMAIN allDays : ~isWeekend(allDays[i])})

(***************************************************************************)
(* A Date with its time of day: [day, ms], ms the milliseconds since the   *)
(* local midnight of the day.                                              *)
(***************************************************************************)
\* the times of day a start or end date arrives with: midnight, noon
DayTimes == {0, 43200000}

DateTimes == [day : Days, ms : DayTimes]

\* a <= b on Dates
notAfter(a, b) == a.day < b.day \/ (a.day = b.day /\ a.ms <= b.ms)

\* a < b on Dates
before(a, b) == a.day < b.day \/ (a.day = b.day /\ a.ms < b.ms)

\* date.setHours(h, m, s, ms)
setHours(date, h, m, s, ms) == [day |-> date.day, ms |-> ((h * 60 + m) * 60 + s) * 1000 + ms]

(***************************************************************************)
(* calculateDuration(start, end): the Duration column of both tables       *)
(***************************************************************************)
\* a fault of the template: the plural for every count
durationText_AlwaysPlural(diffDays) == ToString(diffDays) \o " working day" \o "s"

\* `${diffDays} working day${diffDays !== 1 ? 's' : ''}`
durationText(diffDays) ==
    ToString(diffDays) \o " working day" \o (IF diffDays # 1 THEN "s" ELSE "")

\* a fault of calculateDuration: the test of the order of the dates is missing
calculateDuration_NoGuard(startDate, endDate, throws) ==
    LET allDays == eachDayOfInterval(startDate.day, endDate.day, throws)
    IN  IF allDays.threw
        THEN [threw |-> TRUE, text |-> ""]
        ELSE [threw |-> FALSE, text |-> durationText(businessDaysLength(allDays.days))]

\* calculateDuration; `!startDate || !endDate` is false for every Date object
calculateDuration(startDate, endDate, throws) ==
    IF before(endDate, startDate)
    THEN [threw |-> FALSE, text |-> "0 days"]
    ELSE LET allDays == eachDayOfInterval(startDate.day, endDate.day, throws)
         IN  IF allDays.threw
             THEN [threw |-> TRUE, text |-> ""]
             ELSE [threw |-> FALSE, text |-> durationText(businessDaysLength(allDays.days))]

(***************************************************************************)
(* Leave requests and calculateLeaveBalance                                *)
(***************************************************************************)
LeaveTypes == {"annual", "sick", "personal", "halfday"}

\* a type string that is none of the four leave types
UnknownType == "unpaid"

RequestTypes == LeaveTypes \cup {UnknownType}

Statuses == {"pending", "approved", "rejected"}

\* the fields of a LeaveRequest that calculateLeaveBalance reads
BalanceRequest == [type : RequestTypes, status : Statuses, startDate : Days, endDate : Days]

\* the ids of the leave requests that exist; a user's list holds at most these
RequestIds == {1, 2}

BalanceRequestLists ==
    UNION {[1..n -> BalanceRequest] : n \in 0..Cardinality(RequestIds)}

\* the allowances declared at the top of calculateLeaveBalance
annual == 20
sick == 10
personal == 5
halfday == 12

\* .filter(request => request.status === "approved" && request.type === type)
balanceFilter(request, type) == request.status = "approved" /\ request.type = type

\* a fault of the reducer: half-day requests counted by business days too
balanceReducer_NoHalfday(total, request, type, throws) ==
    LET allDays == eachDayOfInterval(request.startDate, request.endDate, throws)
    IN  IF allDays.threw
        THEN [threw |-> TRUE, total |-> total]
        ELSE [threw |-> FALSE, total |-> total + businessDaysLength(allDays.days)]

\* the callback of .reduce: one request added to the running total
balanceReducer(total, request, type, throws) ==
    IF type = "halfday"
    THEN [threw |-> FALSE, total |-> total + 1]
    ELSE LET allDays == eachDayOfInterval(request.startDate, request.endDate, throws)
         IN  IF allDays.threw
             THEN [threw |-> TRUE, total |-> total]
             ELSE [threw |-> FALSE, total |-> total + businessDaysLength(allDays.days)]

RECURSIVE balanceReduce(_, _, _, _)
\* .reduce(callback, 0) over the filtered list, left to right; a throw ends it
balanceReduce(requests, type, total, throws) ==
    IF requests = <<>>
    THEN [threw |-> FALSE, total |-> total]
    ELSE LET step == balanceReducer(total, Head(requests), type, throws)
         IN  IF step.threw
             THEN step
             ELSE balanceReduce(Tail(requests), type, step.total, throws)

\* a fault of the switch: remaining clamped at zero
balanceSwitch_Clamped(type, used) ==
    LET clamp(n) == IF n < 0 THEN 0 ELSE n
    IN  CASE type = "annual"   -> [threw |-> FALSE, total |-> annual, used |-> used, remaining |-> clamp(annual - used)]
          [] type = "sick"     -> [threw |-> FALSE, total |-> sick, used |-> used, remaining |-> clamp(sick - used)]
          [] type = "personal" -> [threw |-> FALSE, total |-> personal, used |-> used, remaining |-> clamp(personal - used)]
          [] type = "halfday"  -> [threw |-> FALSE, total |-> halfday, used |-> used, remaining |-> clamp(halfday - used)]
          [] OTHER             -> [threw |-> FALSE, total |-> 0, used |-> 0, remaining |-> 0]

\* switch (type) { case "annual": ... default: ... }
balanceSwitch(type, used) ==
    CASE type = "annual"   -> [threw |-> FALSE, total |-> annual, used |-> used, remaining |-> annual - used]
      [] type = "sick"     -> [threw |-> FALSE, total |-> sick, used |-> used, remaining |-> sick - used]
      [] type = "personal" -> [threw |-> FALSE, total |-> personal, used |-> used, remaining |-> personal - used]
      [] type = "halfday"  -> [threw |-> FALSE, total |-> halfday, used |-> used, remaining |-> halfday - used]
      [] OTHER             -> [threw |-> FALSE, total |-> 0, used |-> 0, remaining |-> 0]

\* calculateLeaveBalance(type) over the list myLeaveRequests
calculateLeaveBalance(requests, type, throws) ==
    LET used == balanceReduce(SelectSeq(requests, LAMBDA r : balanceFilter(r, type)), type, 0, throws)
    IN  IF used.threw
        THEN [threw |-> TRUE]
        ELSE balanceSwitch(type, used.total)

(***************************************************************************)
(* Users, roles and sessions                                               *)
(***************************************************************************)
\* the employee directory: one user of each role
Users == {"u1", "u2", "u3", "u4"}

RoleOf == [u \in Users |->
             CASE u = "u1" -> "admin" [] u = "u2" -> "hr"
               [] u = "u3" -> "manager" [] u = "u4" -> "employee"]

\* useAuth().user is null; user?.id is undefined
NoUser == "undefined"

\* the browser sessions, each showing one LeavePage
Pages == {"p1", "p2"}

\* the most mutations started in one run
MaxMutations == 2

\* the owner of each leave request
OwnerOf == [r \in RequestIds |-> "u4"]

\* a fault of the role test: every loaded user passes
isPrivileged_AnyUser(u) == u # NoUser

\* user?.role === 'admin' || user?.role === 'hr' || user?.role === 'manager'
isPrivileged(u) ==
    /\ u # NoUser
    /\ (RoleOf[u] = "admin" \/ RoleOf[u] = "hr" \/ RoleOf[u] = "manager")

(***************************************************************************)
(* Backend, as far as the page uses it: GET /api/leave-requests with a     *)
(* userId or a status filter, PUT /api/leave-requests/{id} with            *)
(* {status, approvedById}, DELETE /api/leave-requests/{id}.                *)
(***************************************************************************)
\* the record of the id is stored ("canceled" marks a deleted record)
recordExists(store, id) == store[id].status # "canceled"

\* PUT: the fields of the body overwrite the stored ones, whatever the stored status
putLeaveRequest(store, id, body) ==
    [store EXCEPT ![id].status = body.status, ![id].approvedById = body.approvedById]

\* DELETE: the record is removed
deleteLeaveRequest(store, id) ==
    [store EXCEPT ![id].status = "canceled"]

\* GET ?userId=: the stored requests of one user, as id -> status
getByUser(store, u) ==
    [r \in RequestIds |->
        IF recordExists(store, r) /\ store[r].userId = u THEN store[r].status ELSE "absent"]

\* GET ?status=pending
getPending(store) == {r \in RequestIds : store[r].status = "pending"}

\* the error messages a failed request can carry
ErrorMessages == {"500: Internal Server Error", "Failed to fetch"}

NotFoundMessage == "404: Leave request not found"

(***************************************************************************)
(* LeavePage: queries, mutations, render conditions                        *)
(***************************************************************************)
NothingFetched == [r \in RequestIds |-> "absent"]

\* enabled: !!user
myLeaveRequestsEnabled(p) == user[p] # NoUser

\* enabled: !!user && (user.role === 'admin' || ... 'hr' || ... 'manager')
pendingRequestsEnabled(p) == user[p] # NoUser /\ isPrivileged(user[p])

\* a fault of the approve body: the status of the reject body
approveBody_Rejected(u) == [status |-> "rejected", approvedById |-> u]

\* approveMutation.mutationFn: the body of the PUT
approveBody(u) == [status |-> "approved", approvedById |-> u]

\* rejectMutation.mutationFn: the body of the PUT
rejectBody(u) == [status |-> "rejected", approvedById |-> u]

\* approveMutation.isPending / rejectMutation.isPending of a page
isPending(p, kind) ==
    \E m \in BagToSet(mutations) : m.page = p /\ m.kind = kind

\* <TabsTrigger>: My Requests always, Pending Approvals behind the role test
tabsTriggerRendered(p, tab) ==
    \/ tab = "my-requests"
    \/ tab = "pending-approvals" /\ isPrivileged(user[p])

\* <TabsContent value="pending-approvals"> is rendered and is the active tab
pendingApprovalsRendered(p) ==
    /\ isPrivileged(user[p])
    /\ activeTab[p] = "pending-approvals"

\* a fault of the row actions: Edit and Cancel on every row
cancelOffered_AnyStatus(p, r) ==
    /\ activeTab[p] = "my-requests"
    /\ myLeaveRequests[p][r] # "absent"

\* myLeaveColumns actions: isPending = row.original.status === "pending"
cancelOffered(p, r) ==
    /\ activeTab[p] = "my-requests"
    /\ myLeaveRequests[p][r] # "absent"
    /\ myLeaveRequests[p][r] = "pending"

NoToast == [title |-> "", description |-> <<>>, variant |-> ""]

\* mutations started so far (in flight or settled) stay within the bound
canStart == BagCardinality(mutations) + toastCount["p1"] + toastCount["p2"] < MaxMutations

InitLeave ==
    /\ leaveRequests = [r \in RequestIds |->
                          [userId |-> OwnerOf[r], status |-> "pending", approvedById |-> NoUser]]
    /\ user = [p \in Pages |-> NoUser]
    /\ activeTab = [p \in Pages |-> "my-requests"]
    /\ myLeaveRequests = [p \in Pages |-> NothingFetched]
    /\ pendingRequests = [p \in Pages |-> {}]
    /\ staleMy = [p \in Pages |-> TRUE]
    /\ stalePending = [p \in Pages |-> TRUE]
    /\ mutations = EmptyBag
    /\ lastToast = [p \in Pages |-> NoToast]
    /\ toastCount = [p \in Pages |-> 0]

\* useAuth delivers the user of the session, who stays
Login(p, u) ==
    /\ user[p] = NoUser
    /\ user' = [user EXCEPT ![p] = u]
    /\ UNCHANGED <<leaveRequests, activeTab, myLeaveRequests, pendingRequests,
                   staleMy, stalePending, mutations, lastToast, toastCount>>
    /\ UNCHANGED nonLeaveVars

\* the {userId} query fetches
FetchMyLeaveRequests(p) ==
    /\ myLeaveRequestsEnabled(p)
    /\ staleMy[p]
    /\ myLeaveRequests' = [myLeaveRequests EXCEPT ![p] = getByUser(leaveRequests, user[p])]
    /\ staleMy' = [staleMy EXCEPT ![p] = FALSE]
    /\ UNCHANGED <<leaveRequests, user, activeTab, pendingRequests, stalePending,
                   mutations, lastToast, toastCount>>
    /\ UNCHANGED nonLeaveVars

\* the {status: "pending"} query fetches
FetchPendingRequests(p) ==
    /\ pendingRequestsEnabled(p)
    /\ stalePending[p]
    /\ pendingRequests' = [pendingRequests EXCEPT ![p] = getPending(leaveRequests)]
    /\ stalePending' = [stalePending EXCEPT ![p] = FALSE]
    /\ UNCHANGED <<leaveRequests, user, activeTab, myLeaveRequests, staleMy,
                   mutations, lastToast, toastCount>>
    /\ UNCHANGED nonLeaveVars

\* the employee directory query of the leave page: enabled behind the role test
employeesEnabled(p) == user[p] # NoUser /\ isPrivileged(user[p])

\* the employee directory query of the leave page fetches
FetchLeaveEmployees(p) ==
    /\ employeesEnabled(p)
    /\ leaveEmployees[p] = {}
    /\ leaveEmployees' = [leaveEmployees EXCEPT ![p] = Users]
    /\ UNCHANGED <<myAttendance, myAttendanceStale, allLeaveRequests, allLeaveStale>>
    /\ UNCHANGED <<leaveVars, attendanceVars, balanceVars, viewVars, durationVars>>

\* <Tabs onValueChange={setActiveTab}>
SetActiveTab(p, tab) ==
    /\ tab # activeTab[p]
    /\ tabsTriggerRendered(p, tab)
    /\ activeTab' = [activeTab EXCEPT ![p] = tab]
    /\ UNCHANGED <<leaveRequests, user, myLeaveRequests, pendingRequests,
                   staleMy, stalePending, mutations, lastToast, toastCount>>
    /\ UNCHANGED nonLeaveVars

\* Approve button of a row of the Pending Approvals table
Approve(p, r) ==
    /\ canStart
    /\ pendingApprovalsRendered(p)
    /\ r \in pendingRequests[p]
    /\ ~isPending(p, "approve")
    /\ mutations' = mutations (+) SetToBag({
          [page |-> p, kind |-> "approve", method |-> "PUT", id |-> r,
           body |-> approveBody(user[p])]})
    /\ UNCHANGED <<leaveRequests, user, activeTab, myLeaveRequests, pendingRequests,
                   staleMy, stalePending, lastToast, toastCount>>
    /\ UNCHANGED nonLeaveVars

\* Reject button of a row of the Pending Approvals table
Reject(p, r) ==
    /\ canStart
    /\ pendingApprovalsRendered(p)
    /\ r \in pendingRequests[p]
    /\ ~isPending(p, "reject")
    /\ mutations' = mutations (+) SetToBag({
          [page |-> p, kind |-> "reject", method |-> "PUT", id |-> r,
           body |-> rejectBody(user[p])]})
    /\ UNCHANGED <<leaveRequests, user, activeTab, myLeaveRequests, pendingRequests,
                   staleMy, stalePending, lastToast, toastCount>>
    /\ UNCHANGED nonLeaveVars

\* "Yes, cancel request" of the Cancel dialog of a row of the My Requests table
Cancel(p, r) ==
    /\ canStart
    /\ cancelOffered(p, r)
    /\ mutations' = mutations (+) SetToBag({
          [page |-> p, kind |-> "cancel", method |-> "DELETE", id |-> r, body |-> <<>>]})
    /\ UNCHANGED <<leaveRequests, user, activeTab, myLeaveRequests, pendingRequests,
                   staleMy, stalePending, lastToast, toastCount>>
    /\ UNCHANGED nonLeaveVars

successToast(kind) ==
    CASE kind = "approve" ->
           [title |-> "Request approved",
            description |-> <<"The leave request has been approved successfully.">>,
            variant |-> "default"]
      [] kind = "reject" ->
           [title |-> "Request rejected",
            description |-> <<"The leave request has been rejected.">>,
            variant |-> "default"]
      [] kind = "cancel" ->
           [title |-> "Request canceled",
            description |-> <<"Your leave request has been canceled.">>,
            variant |-> "default"]

\* description: `Failed to ... request: ${error.message}`
errorToast(kind, message) ==
    [title |-> "Error",
     description |->
        <<CASE kind = "approve" -> "Failed to approve request: "
            [] kind = "reject" -> "Failed to reject request: "
            [] kind = "cancel" -> "Failed to cancel request: ",
          message>>,
     variant |-> "destructive"]

\* toast({...}): a notification handed to the toast sink
toast(p, t) ==
    /\ lastToast' = [lastToast EXCEPT ![p] = t]
    /\ toastCount' = [toastCount EXCEPT ![p] = @ + 1]

\* a fault of onError: the queries are invalidated on failure as well
onError_Invalidates(p, kind, message) ==
    /\ toast(p, errorToast(kind, message))
    /\ staleMy' = [staleMy EXCEPT ![p] = TRUE]
    /\ stalePending' = [stalePending EXCEPT ![p] = TRUE]
    /\ UNCHANGED <<user, activeTab, myLeaveRequests, pendingRequests>>

\* onError of the three mutations: the error toast, nothing else
onError(p, kind, message) ==
    /\ toast(p, errorToast(kind, message))
    /\ UNCHANGED <<user, activeTab, myLeaveRequests, pendingRequests, staleMy, stalePending>>

\* onSuccess of the three mutations: invalidateQueries(["/api/leave-requests"]), toast
onSuccess(p, kind) ==
    /\ staleMy' = [staleMy EXCEPT ![p] = TRUE]
    /\ stalePending' = [stalePending EXCEPT ![p] = TRUE]
    /\ toast(p, successToast(kind))
    /\ UNCHANGED <<user, activeTab, myLeaveRequests, pendingRequests>>

\* the backend carries a request out and the page's onSuccess runs
MutationSucceeds(m) ==
    /\ recordExists(leaveRequests, m.id)
    /\ leaveRequests' = IF m.method = "PUT"
                        THEN putLeaveRequest(leaveRequests, m.id, m.body)
                        ELSE deleteLeaveRequest(leaveRequests, m.id)
    /\ mutations' = mutations (-) SetToBag({m})
    /\ onSuccess(m.page, m.kind)
    /\ UNCHANGED nonLeaveVars

\* the request fails (network, server error, record gone) and the page's onError runs
MutationFails(m, message) ==
    /\ \/ message \in ErrorMessages
       \/ message = NotFoundMessage /\ ~recordExists(leaveRequests, m.id)
    /\ mutations' = mutations (-) SetToBag({m})
    /\ onError(m.page, m.kind, message)
    /\ UNCHANGED leaveRequests
    /\ UNCHANGED nonLeaveVars

(***************************************************************************)
(* AttendancePage: the All Attendance table, the edit dialog, the update   *)
(* mutation.  Timestamps are [date, time] with time as "HH:mm"; NullTime   *)
(* stands for a null checkInTime / checkOutTime.                           *)
(***************************************************************************)
\* the date the page shows (selectedDate) and the records are of
Today == "2024-01-05"

NullTime == [date |-> "", time |-> ""]

\* the values an <input type="time"> gives besides ""
FormTimes == {"09:00", "17:30"}

\* the employees that may have an attendance record on the date, and its id
AttendanceUsers == {"u3", "u4"}

attendanceIdOf(u) == IF u = "u3" THEN 11 ELSE 12

\* the most attendance updates started in one run
MaxUpdates == 2

\* the attendance record of an employee who has checked in on the date
InitialRecords(u) ==
    {[id |-> attendanceIdOf(u), userId |-> u, date |-> Today,
      checkInTime |-> [date |-> Today, time |-> "09:00"], checkOutTime |-> NullTime]}

\* PUT /api/attendance/{id}: the fields of the body overwrite the stored ones
putAttendance(store, id, attendanceData) ==
    {IF rec.id = id
     THEN [f \in DOMAIN rec |-> IF f \in DOMAIN attendanceData THEN attendanceData[f] ELSE rec[f]]
     ELSE rec : rec \in store}

attendanceExists(store, id) == \E rec \in store : rec.id = id

\* a fault of the team-wide queries: enabled for every loaded user
teamQueriesEnabled_AnyUser == attUser # NoUser

\* enabled: !!user && (user.role === 'admin' || ... 'hr' || ... 'manager')
teamQueriesEnabled == attUser # NoUser /\ isPrivileged(attUser)

\* isLoadingDateAttendance
isLoadingDateAttendance == teamQueriesEnabled /\ ~dateLoaded

\* format(new Date(t), 'HH:mm'), '' for a null time
formatTime(t) == IF t # NullTime THEN t.time ELSE ""

\* one element of allEmployeeAttendanceData (the fields the edit dialog reads)
attendanceRow(employee) ==
    LET found == {rec \in dateAttendance : rec.userId = employee}
    IN  IF found # {}
        THEN LET attendanceRecord == CHOOSE rec \in found : TRUE
             IN  [id |-> attendanceRecord.id, userId |-> employee,
                  checkInTime |-> attendanceRecord.checkInTime,
                  checkOutTime |-> attendanceRecord.checkOutTime,
                  date |-> attendanceRecord.date]
        ELSE [id |-> 0, userId |-> employee, checkInTime |-> NullTime,
              checkOutTime |-> NullTime, date |-> Today]

\* editingRecord is null
NoRecord == [id |-> -1, userId |-> NoUser, checkInTime |-> NullTime,
             checkOutTime |-> NullTime, date |-> ""]

EmptyForm == [checkInTime |-> "", checkOutTime |-> ""]

\* a fault of the Actions column: rendered for every role that sees the table
actionsColumnRendered_Privileged == attUser # NoUser /\ isPrivileged(attUser)

\* the Actions column: ...(user?.role === 'admin' ? [{...}] : [])
actionsColumnRendered == attUser # NoUser /\ RoleOf[attUser] = "admin"

\* the All Attendance table is on screen
allAttendanceTableRendered ==
    /\ attUser # NoUser /\ isPrivileged(attUser)
    /\ attTab = "all-attendance"
    /\ ~isLoadingDateAttendance
    /\ employees # {}

\* a fault of the Save Changes button: never disabled
updateIsPending_Never == FALSE

\* updateAttendanceMutation.isPending
updateIsPending == updateMutations # EmptyBag

canStartUpdate == BagCardinality(updateMutations) + attToastCount < MaxUpdates

\* the base date of a submitted time: the record's date, else its check-in, else now
baseDate(record) ==
    IF record.date # "" THEN record.date
    ELSE IF record.checkInTime # NullTime THEN record.checkInTime.date
    ELSE Today

\* a fault of onSubmit: both fields are sent, an empty one as null
attendanceDataOf_AllFields(data, record) ==
    [f \in {"checkInTime", "checkOutTime"} |->
        IF data[f] # "" THEN [date |-> baseDate(record), time |-> data[f]] ELSE NullTime]

\* the attendanceData that onSubmit builds from the form values
attendanceDataOf(data, record) ==
    [f \in {g \in {"checkInTime", "checkOutTime"} : data[g] # ""} |->
        [date |-> baseDate(record), time |-> data[f]]]

(***************************************************************************)
(* The All Attendance view: isEmployeeOnLeave and the status of each row   *)
(***************************************************************************)
\* the last day the view's dates range over
MaxViewDay == 2

ViewDays == 0..MaxViewDay

\* new Date(value) of a stored calendar date: the midnight of the day
newDate(d) == [day |-> d, ms |-> 0]

\* a fault of isEmployeeOnLeave: the end date is left at its midnight
isEmployeeOnLeave_EndAtMidnight(employeeId, date) ==
    \E request \in allLeaveRequests :
        /\ ~(request.userId # employeeId \/ request.status # "approved")
        /\ LET requestStartDate == setHours(newDate(request.startDate), 0, 0, 0, 0)
               requestEndDate == newDate(request.endDate)
               checkDate == setHours(newDate(date), 12, 0, 0, 0)
           IN  notAfter(requestStartDate, checkDate) /\ notAfter(checkDate, requestEndDate)

\* isEmployeeOnLeave(employeeId, date): allLeaveRequests.some(...)
isEmployeeOnLeave(employeeId, date) ==
    \E request \in allLeaveRequests :
        /\ ~(request.userId # employeeId \/ request.status # "approved")
        /\ LET requestStartDate == setHours(newDate(request.startDate), 0, 0, 0, 0)
               requestEndDate == setHours(newDate(request.endDate), 23, 59, 59, 999)
               checkDate == setHours(newDate(date), 12, 0, 0, 0)
           IN  notAfter(requestStartDate, checkDate) /\ notAfter(checkDate, requestEndDate)

\* a fault of the status: the leave is looked at before the check-in
attendanceStatus_LeaveFirst(employee) ==
    LET found == {rec \in dateAttendance : rec.userId = employee}
        onLeave == isEmployeeOnLeave(employee, selectedDate)
    IN  IF onLeave
        THEN "on leave"
        ELSE IF found # {} /\ (CHOOSE rec \in found : TRUE).checkInTime # NullTime
             THEN "present"
             ELSE "absent"

\* the status of one element of allEmployeeAttendanceData
attendanceStatus(employee) ==
    LET found == {rec \in dateAttendance : rec.userId = employee}
        onLeave == isEmployeeOnLeave(employee, selectedDate)
    IN  IF found # {} /\ (CHOOSE rec \in found : TRUE).checkInTime # NullTime
        THEN "present"
        ELSE IF onLeave
             THEN "on leave"
             ELSE "absent"

\* a fault of the summary cards: Absent counts every row that is not present
summaryCount_NotPresent(rows, status) ==
    IF status = "absent"
    THEN Cardinality({e \in DOMAIN rows : rows[e].status # "present"})
    ELSE Cardinality({e \in DOMAIN rows : rows[e].status = status})

\* allEmployeeAttendanceData.filter(a => a.status === status).length
summaryCount(rows, status) ==
    Cardinality({e \in DOMAIN rows : rows[e].status = status})

(***************************************************************************)
(* The two calendars and setSelectedDate                                   *)
(***************************************************************************)
\* onSelect is called with undefined
NoDate == -1

\* disabled of the My Attendance calendar: every day but today
myCalendarDisabled(date) ==
    LET today == setHours(newDate(currentDay), 0, 0, 0, 0)
        compareDate == setHours(newDate(date), 0, 0, 0, 0)
    IN  compareDate # today

\* a fault of the All Attendance calendar: no day is disabled
allCalendarDisabled_Never(date) == FALSE

\* disabled of the All Attendance calendar: date > the end of today
allCalendarDisabled(date) ==
    LET today == setHours(newDate(currentDay), 23, 59, 59, 999)
    IN  before(today, newDate(date))

\* <Calendar mode="single">: a click on the selected day unselects it
dayPickerSelect(day) == IF day = selectedDate THEN NoDate ELSE day

\* onSelect={(date) => date && setSelectedDate(date)}; a new date is a new key of
\* the attendance-by-date query, which starts without data
onSelect(date) ==
    IF date # NoDate
    THEN /\ selectedDate' = date
         /\ dateAttendance' = {}
         /\ dateLoaded' = FALSE
         /\ attStale' = TRUE
    ELSE UNCHANGED <<selectedDate, dateAttendance, dateLoaded, attStale>>

\* a click on a day of the calendar of the My Attendance tab
SelectMyAttendanceDay(day) ==
    /\ attTab = "my-attendance"
    /\ ~myCalendarDisabled(day)
    /\ onSelect(dayPickerSelect(day))
    /\ UNCHANGED <<attendance, attUser, attTab, employees, isEditDialogOpen, editingRecord,
                   form, updateMutations, attLastToast, attToastCount>>
    /\ UNCHANGED <<allEmployeeAttendanceData, attendanceSummary, currentDay>>
    /\ UNCHANGED <<leaveVars, balanceVars, queryVars, durationVars>>

\* a click on a day of the calendar of the All Attendance tab
SelectAllAttendanceDay(day) ==
    /\ attUser # NoUser /\ isPrivileged(attUser)
    /\ attTab = "all-attendance"
    /\ ~allCalendarDisabled(day)
    /\ onSelect(dayPickerSelect(day))
    /\ UNCHANGED <<attendance, attUser, attTab, employees, isEditDialogOpen, editingRecord,
                   form, updateMutations, attLastToast, attToastCount>>
    /\ UNCHANGED <<allEmployeeAttendanceData, attendanceSummary, currentDay>>
    /\ UNCHANGED <<leaveVars, balanceVars, queryVars, durationVars>>

\* midnight passes while the page is open
DayPasses ==
    /\ currentDay < MaxDay
    /\ currentDay' = currentDay + 1
    /\ UNCHANGED <<selectedDate, allEmployeeAttendanceData, attendanceSummary>>
    /\ UNCHANGED <<leaveVars, attendanceVars, balanceVars, queryVars, durationVars>>

\* the attendance records the date query can deliver for an employee
ViewRecords(u) ==
    InitialRecords(u) \cup
    {[id |-> attendanceIdOf(u), userId |-> u, date |-> Today,
      checkInTime |-> NullTime, checkOutTime |-> NullTime]}

\* the fields of a LeaveRequest that isEmployeeOnLeave reads
ViewLeaveFields ==
    [userId : AttendanceUsers, status : Statuses, startDate : ViewDays, endDate : ViewDays]

InitAttendance ==
    /\ \E present \in SUBSET AttendanceUsers :
         \E pick \in [present -> UNION {InitialRecords(u) : u \in AttendanceUsers}] :
            /\ \A u \in present : pick[u] \in InitialRecords(u)
            /\ attendance = {pick[u] : u \in present}
    /\ attUser = NoUser
    /\ attTab = "my-attendance"
    /\ employees = {}
    /\ dateAttendance = {}
    /\ dateLoaded = FALSE
    /\ attStale = TRUE
    /\ isEditDialogOpen = FALSE
    /\ editingRecord = NoRecord
    /\ form = [values |-> EmptyForm, defaultValues |-> EmptyForm]
    /\ updateMutations = EmptyBag
    /\ attLastToast = NoToast
    /\ attToastCount = 0

\* useAuth delivers the user of the session, who stays
AttLogin(u) ==
    /\ attUser = NoUser
    /\ attUser' = u
    /\ UNCHANGED <<attendance, attTab, employees, dateAttendance, dateLoaded, attStale,
                   isEditDialogOpen, editingRecord, form, updateMutations,
                   attLastToast, attToastCount>>
    /\ UNCHANGED nonAttendanceVars

\* a click on a tab trigger; All Attendance is rendered behind the role test
AttSelectTab(tab) ==
    /\ tab # attTab
    /\ ~isEditDialogOpen
    /\ tab = "all-attendance" => (attUser # NoUser /\ isPrivileged(attUser))
    /\ attTab' = tab
    /\ UNCHANGED <<attendance, attUser, employees, dateAttendance, dateLoaded, attStale,
                   isEditDialogOpen, editingRecord, form, updateMutations,
                   attLastToast, attToastCount>>
    /\ UNCHANGED nonAttendanceVars

\* the employee directory query fetches
FetchEmployees ==
    /\ teamQueriesEnabled
    /\ employees = {}
    /\ employees' = Users
    /\ UNCHANGED <<attendance, attUser, attTab, dateAttendance, dateLoaded, attStale,
                   isEditDialogOpen, editingRecord, form, updateMutations,
                   attLastToast, attToastCount>>
    /\ UNCHANGED nonAttendanceVars

\* the attendance-by-date query fetches
FetchDateAttendance ==
    /\ teamQueriesEnabled
    /\ attStale
    /\ dateAttendance' = attendance
    /\ dateLoaded' = TRUE
    /\ attStale' = FALSE
    /\ UNCHANGED <<attendance, attUser, attTab, employees,
                   isEditDialogOpen, editingRecord, form, updateMutations,
                   attLastToast, attToastCount>>
    /\ UNCHANGED nonAttendanceVars

\* the {userId} attendance query: enabled: !!user
myAttendanceEnabled == attUser # NoUser

\* GET /api/attendance?userId=
getAttendanceByUser(store, u) == {rec \in store : rec.userId = u}

\* the dates of the stored leave requests
StoredDates == [r \in RequestIds |-> [startDate |-> r - 1, endDate |-> r]]

\* GET /api/leave-requests: every stored request
getAllLeaveRequests(store) ==
    {[id |-> r, userId |-> store[r].userId, status |-> store[r].status,
      startDate |-> StoredDates[r].startDate, endDate |-> StoredDates[r].endDate] :
        r \in {x \in RequestIds : recordExists(store, x)}}

\* the {userId} attendance query fetches
FetchMyAttendance ==
    /\ myAttendanceEnabled
    /\ myAttendanceStale
    /\ myAttendance' = getAttendanceByUser(attendance, attUser)
    /\ myAttendanceStale' = FALSE
    /\ UNCHANGED <<leaveEmployees, allLeaveRequests, allLeaveStale>>
    /\ UNCHANGED <<leaveVars, attendanceVars, balanceVars, viewVars, durationVars>>

\* the leave-requests query of the attendance page fetches
FetchAllLeaveRequests ==
    /\ teamQueriesEnabled
    /\ allLeaveStale
    /\ allLeaveRequests' = getAllLeaveRequests(leaveRequests)
    /\ allLeaveStale' = FALSE
    /\ UNCHANGED <<leaveEmployees, myAttendance, myAttendanceStale>>
    /\ UNCHANGED <<leaveVars, attendanceVars, balanceVars, viewVars, durationVars>>

\* handleEditAttendance(row.original), from the edit button of a row
handleEditAttendance(employee) ==
    /\ allAttendanceTableRendered
    /\ actionsColumnRendered
    /\ ~isEditDialogOpen
    /\ employee \in employees
    /\ LET row == attendanceRow(employee)
           shown == [checkInTime |-> formatTime(row.checkInTime),
                     checkOutTime |-> formatTime(row.checkOutTime)]
       IN  /\ editingRecord' = row
           /\ form' = [values |-> shown, defaultValues |-> shown]
    /\ isEditDialogOpen' = TRUE
    /\ UNCHANGED <<attendance, attUser, attTab, employees, dateAttendance, dateLoaded,
                   attStale, updateMutations, attLastToast, attToastCount>>
    /\ UNCHANGED nonAttendanceVars

\* the user changes a time input of the dialog
EditField(field, value) ==
    /\ isEditDialogOpen
    /\ form.values[field] # value
    /\ form' = [form EXCEPT !.values[field] = value]
    /\ UNCHANGED <<attendance, attUser, attTab, employees, dateAttendance, dateLoaded,
                   attStale, isEditDialogOpen, editingRecord, updateMutations,
                   attLastToast, attToastCount>>
    /\ UNCHANGED nonAttendanceVars

\* onSubmit(data), from the Save Changes button (disabled while isPending)
onSubmit ==
    /\ isEditDialogOpen
    /\ ~updateIsPending
    /\ canStartUpdate
    /\ editingRecord # NoRecord
    /\ updateMutations' = updateMutations (+) SetToBag({
          [id |-> editingRecord.id,
           attendanceData |-> attendanceDataOf(form.values, editingRecord)]})
    /\ UNCHANGED <<attendance, attUser, attTab, employees, dateAttendance, dateLoaded,
                   attStale, isEditDialogOpen, editingRecord, form,
                   attLastToast, attToastCount>>
    /\ UNCHANGED nonAttendanceVars

\* the Cancel button of the dialog
CancelEdit ==
    /\ isEditDialogOpen
    /\ isEditDialogOpen' = FALSE
    /\ editingRecord' = NoRecord
    /\ form' = [form EXCEPT !.values = form.defaultValues]
    /\ UNCHANGED <<attendance, attUser, attTab, employees, dateAttendance, dateLoaded,
                   attStale, updateMutations, attLastToast, attToastCount>>
    /\ UNCHANGED nonAttendanceVars

\* <Dialog onOpenChange={setIsEditDialogOpen}>: Escape, the overlay, the close icon
DismissDialog ==
    /\ isEditDialogOpen
    /\ isEditDialogOpen' = FALSE
    /\ UNCHANGED <<attendance, attUser, attTab, employees, dateAttendance, dateLoaded,
                   attStale, editingRecord, form, updateMutations,
                   attLastToast, attToastCount>>
    /\ UNCHANGED nonAttendanceVars

attToast(t) ==
    /\ attLastToast' = t
    /\ attToastCount' = attToastCount + 1

\* updateAttendanceMutation.onSuccess
updateOnSuccess ==
    /\ attStale' = TRUE
    /\ attToast([title |-> "Success",
                 description |-> <<"Attendance record updated successfully">>,
                 variant |-> "default"])
    /\ isEditDialogOpen' = FALSE
    /\ editingRecord' = NoRecord
    /\ form' = [form EXCEPT !.values = form.defaultValues]

\* a fault of onError: the dialog is closed and the form reset as on success
updateOnError_ClosesDialog(message) ==
    /\ attToast([title |-> "Error",
                 description |-> <<"Failed to update attendance record">>,
                 variant |-> "destructive"])
    /\ isEditDialogOpen' = FALSE
    /\ editingRecord' = NoRecord
    /\ form' = [form EXCEPT !.values = form.defaultValues]
    /\ UNCHANGED attStale

\* updateAttendanceMutation.onError: the error itself is not used
updateOnError(message) ==
    /\ attToast([title |-> "Error",
                 description |-> <<"Failed to update attendance record">>,
                 variant |-> "destructive"])
    /\ UNCHANGED <<attStale, isEditDialogOpen, editingRecord, form>>

\* the backend carries the update out and onSuccess runs
UpdateSucceeds(m) ==
    /\ attendanceExists(attendance, m.id)
    /\ attendance' = putAttendance(attendance, m.id, m.attendanceData)
    /\ updateMutations' = updateMutations (-) SetToBag({m})
    /\ updateOnSuccess
    /\ UNCHANGED <<attUser, attTab, employees, dateAttendance, dateLoaded>>
    /\ UNCHANGED nonAttendanceVars

\* the update fails (network, server error, no such record) and onError runs
UpdateFails(m, message) ==
    /\ \/ message \in ErrorMessages
       \/ message = NotFoundMessage /\ ~attendanceExists(attendance, m.id)
    /\ updateMutations' = updateMutations (-) SetToBag({m})
    /\ updateOnError(message)
    /\ UNCHANGED <<attendance, attUser, attTab, employees, dateAttendance, dateLoaded>>
    /\ UNCHANGED nonAttendanceVars

(***************************************************************************)
(* The specifications                                                      *)
(***************************************************************************)
NotRendered == [t \in RequestTypes |-> [threw |-> FALSE, total |-> -1, used |-> -1, remaining |-> -1]]

\* the page a specification is not about stays as it is before it is opened
LeaveIdle == InitLeave

AttendanceIdle ==
    /\ attendance = {}
    /\ attUser = NoUser
    /\ attTab = "my-attendance"
    /\ employees = {}
    /\ dateAttendance = {}
    /\ dateLoaded = FALSE
    /\ attStale = TRUE
    /\ isEditDialogOpen = FALSE
    /\ editingRecord = NoRecord
    /\ form = [values |-> EmptyForm, defaultValues |-> EmptyForm]
    /\ updateMutations = EmptyBag
    /\ attLastToast = NoToast
    /\ attToastCount = 0

BalanceIdle ==
    /\ balanceRequests = <<>>
    /\ balances = NotRendered

QueryIdle ==
    /\ leaveEmployees = [p \in Pages |-> {}]
    /\ myAttendance = {}
    /\ myAttendanceStale = TRUE
    /\ allLeaveRequests = {}
    /\ allLeaveStale = TRUE

NoRows == [e \in {} |-> ""]

NoSummary == [present |-> -1, absent |-> -1, onLeave |-> -1]

ViewIdle ==
    /\ selectedDate = 0
    /\ allEmployeeAttendanceData = NoRows
    /\ attendanceSummary = NoSummary
    /\ currentDay = 0

NoDuration == [threw |-> FALSE, text |-> "not rendered"]

DurationIdle ==
    /\ durationArgs = [start |-> [day |-> 0, ms |-> 0], end |-> [day |-> 0, ms |-> 0]]
    /\ duration = NoDuration

\* Spec: the leave-request lifecycle
Init == InitLeave /\ AttendanceIdle /\ BalanceIdle /\ QueryIdle /\ ViewIdle /\ DurationIdle

Next ==
    \/ \E p \in Pages, u \in Users : Login(p, u)
    \/ \E p \in Pages : FetchMyLeaveRequests(p)
    \/ \E p \in Pages : FetchPendingRequests(p)
    \/ \E p \in Pages, tab \in {"my-requests", "pending-approvals"} : SetActiveTab(p, tab)
    \/ \E p \in Pages, r \in RequestIds : Approve(p, r)
    \/ \E p \in Pages, r \in RequestIds : Reject(p, r)
    \/ \E p \in Pages, r \in RequestIds : Cancel(p, r)
    \/ \E m \in BagToSet(mutations) : MutationSucceeds(m)
    \/ \E m \in BagToSet(mutations), message \in ErrorMessages \cup {NotFoundMessage} :
          MutationFails(m, message)

Spec == Init /\ [][Next]_vars

\* SpecBalance: the balance cards.  The list of the user's requests is any list the
\* query can deliver; a render calls calculateLeaveBalance for every type.
InitBalance ==
    /\ balanceRequests \in BalanceRequestLists
    /\ balances = NotRendered
    /\ LeaveIdle
    /\ AttendanceIdle
    /\ QueryIdle /\ ViewIdle /\ DurationIdle

\* one render of the balance cards against the date-fns release of the build
RenderBalances ==
    /\ balances = NotRendered
    /\ \E throws \in BOOLEAN :
         balances' = [t \in RequestTypes |-> calculateLeaveBalance(balanceRequests, t, throws)]
    /\ UNCHANGED balanceRequests
    /\ UNCHANGED nonBalanceVars

NextBalance == RenderBalances

SpecBalance == InitBalance /\ [][NextBalance]_vars

\* SpecAttendance: the attendance page of one session
InitAttendancePage ==
    InitAttendance /\ LeaveIdle /\ BalanceIdle /\ QueryIdle /\ ViewIdle /\ DurationIdle

NextAttendance ==
    \/ \E u \in Users : AttLogin(u)
    \/ \E tab \in {"my-attendance", "all-attendance"} : AttSelectTab(tab)
    \/ FetchEmployees
    \/ FetchDateAttendance
    \/ \E employee \in Users : handleEditAttendance(employee)
    \/ \E field \in {"checkInTime", "checkOutTime"}, value \in FormTimes \cup {""} :
          EditField(field, value)
    \/ onSubmit
    \/ CancelEdit
    \/ DismissDialog
    \/ \E m \in BagToSet(updateMutations) : UpdateSucceeds(m)
    \/ \E m \in BagToSet(updateMutations), message \in ErrorMessages \cup {NotFoundMessage} :
          UpdateFails(m, message)

SpecAttendance == InitAttendancePage /\ [][NextAttendance]_vars

\* SpecQueries: the queries of two leave pages and an attendance page
InitQueries ==
    InitLeave /\ InitAttendance /\ BalanceIdle /\ QueryIdle /\ ViewIdle /\ DurationIdle

NextQueries ==
    \/ \E p \in Pages, u \in Users : Login(p, u)
    \/ \E p \in Pages : FetchMyLeaveRequests(p)
    \/ \E p \in Pages : FetchPendingRequests(p)
    \/ \E p \in Pages : FetchLeaveEmployees(p)
    \/ \E u \in Users : AttLogin(u)
    \/ FetchMyAttendance
    \/ FetchDateAttendance
    \/ FetchEmployees
    \/ FetchAllLeaveRequests

SpecQueries == InitQueries /\ [][NextQueries]_vars

\* SpecCalendar: the date selection of the attendance page, opened on any day
\* after day 0, so that day 0 is a past day throughout
InitCalendar ==
    /\ currentDay \in Days \ {0}
    /\ selectedDate = currentDay
    /\ allEmployeeAttendanceData = NoRows
    /\ attendanceSummary = NoSummary
    /\ AttendanceIdle /\ LeaveIdle /\ BalanceIdle /\ QueryIdle /\ DurationIdle

NextCalendar ==
    \/ \E u \in Users : AttLogin(u)
    \/ \E tab \in {"my-attendance", "all-attendance"} : AttSelectTab(tab)
    \/ FetchDateAttendance
    \/ \E day \in Days : SelectMyAttendanceDay(day)
    \/ \E day \in Days : SelectAllAttendanceDay(day)
    \/ DayPasses

SpecCalendar == InitCalendar /\ [][NextCalendar]_vars

\* SpecStatus: the All Attendance table of an admin, for any data the queries can
\* deliver and any date the calendar can hold
InitStatus ==
    /\ \E present \in SUBSET AttendanceUsers :
         \E pick \in [present -> UNION {ViewRecords(u) : u \in AttendanceUsers}] :
            /\ \A u \in present : pick[u] \in ViewRecords(u)
            /\ attendance = {pick[u] : u \in present}
            /\ dateAttendance = attendance
    /\ attUser = "u1"
    /\ attTab = "all-attendance"
    /\ employees = Users
    /\ dateLoaded = TRUE
    /\ attStale = FALSE
    /\ isEditDialogOpen = FALSE
    /\ editingRecord = NoRecord
    /\ form = [values |-> EmptyForm, defaultValues |-> EmptyForm]
    /\ updateMutations = EmptyBag
    /\ attLastToast = NoToast
    /\ attToastCount = 0
    /\ leaveEmployees = [p \in Pages |-> {}]
    /\ myAttendance = {}
    /\ myAttendanceStale = TRUE
    /\ \E f \in UNION {[ids -> ViewLeaveFields] : ids \in SUBSET RequestIds} :
         allLeaveRequests =
            {[id |-> r, userId |-> f[r].userId, status |-> f[r].status,
              startDate |-> f[r].startDate, endDate |-> f[r].endDate] : r \in DOMAIN f}
    /\ allLeaveStale = FALSE
    /\ selectedDate \in ViewDays
    /\ currentDay = MaxViewDay
    /\ allEmployeeAttendanceData = NoRows
    /\ attendanceSummary = NoSummary
    /\ LeaveIdle /\ BalanceIdle /\ DurationIdle

\* one render of the table: employees.map(employee => ({..., status}))
RenderAllAttendance ==
    /\ allAttendanceTableRendered
    /\ allEmployeeAttendanceData = NoRows
    /\ allEmployeeAttendanceData' =
          [employee \in employees |->
              [row |-> attendanceRow(employee), status |-> attendanceStatus(employee)]]
    /\ attendanceSummary' =
          [present |-> summaryCount(allEmployeeAttendanceData', "present"),
           absent  |-> summaryCount(allEmployeeAttendanceData', "absent"),
           onLeave |-> summaryCount(allEmployeeAttendanceData', "on leave")]
    /\ UNCHANGED <<selectedDate, currentDay>>
    /\ UNCHANGED <<leaveVars, attendanceVars, balanceVars, queryVars, durationVars>>

NextStatus == RenderAllAttendance

SpecStatus == InitStatus /\ [][NextStatus]_vars

\* SpecDuration: the Duration cell of a row, for any start and end the row can hold
InitDuration ==
    /\ durationArgs \in [start : DateTimes, end : DateTimes]
    /\ duration = NoDuration
    /\ LeaveIdle /\ AttendanceIdle /\ BalanceIdle /\ QueryIdle /\ ViewIdle

\* the cell renders against the date-fns release of the build
RenderDuration ==
    /\ duration = NoDuration
    /\ \E throws \in BOOLEAN :
         duration' = calculateDuration(durationArgs.start, durationArgs.end, throws)
    /\ UNCHANGED durationArgs
    /\ UNCHANGED nonDurationVars

NextDuration == RenderDuration

SpecDuration == InitDuration /\ [][NextDuration]_vars

(***************************************************************************)
(* Claims about calculateLeaveBalance (checked under SpecBalance)          *)
(***************************************************************************)
Rendered == balances # NotRendered

\* Monday to Friday days of the inclusive range [s, e]; the range is empty when e < s
WeekdaysInRange(s, e) == Cardinality({d \in s..e : getDay(d) \in 1..5})

\* the positions of the approved requests of a type
ApprovedOfType(t) ==
    {i \in DOMAIN balanceRequests :
        balanceRequests[i].status = "approved" /\ balanceRequests[i].type = t}

RECURSIVE SumWeekdays(_)
SumWeekdays(S) ==
    IF S = {}
    THEN 0
    ELSE LET i == CHOOSE x \in S : TRUE
         IN  WeekdaysInRange(balanceRequests[i].startDate, balanceRequests[i].endDate)
               + SumWeekdays(S \ {i})

\* C7: for annual, sick and personal, used is the sum over the approved requests of
\* that type of the Monday-Friday days in the inclusive range [startDate, endDate];
\* pending and rejected requests and requests of other types contribute nothing
C7_UsedIsWeekdaySum ==
    Rendered =>
        \A t \in {"annual", "sick", "personal"} :
            /\ ~balances[t].threw
            /\ balances[t].used = SumWeekdays(ApprovedOfType(t))

\* C8: for halfday, used is the number of approved halfday requests, one unit each
\* whatever the dates, and remaining = 12 - that number
C8_HalfdayCountsRequests ==
    Rendered =>
        balances["halfday"] =
            [threw |-> FALSE, total |-> 12,
             used |-> Cardinality(ApprovedOfType("halfday")),
             remaining |-> 12 - Cardinality(ApprovedOfType("halfday"))]

\* two approved halfday requests, one ending before it starts, one of several days
C8_Witness ==
    /\ Rendered
    /\ Len(balanceRequests) = 2
    /\ ApprovedOfType("halfday") = {1, 2}
    /\ balanceRequests[1].endDate < balanceRequests[1].startDate
    /\ balanceRequests[2].endDate > balanceRequests[2].startDate + 1
    /\ balances["halfday"].used = 2

C10_UnknownTypeIsZero ==
    Rendered =>
        balances[UnknownType] = [threw |-> FALSE, total |-> 0, used |-> 0, remaining |-> 0]

(***************************************************************************)
(* Claims about calculateDuration (checked under SpecDuration)             *)
(***************************************************************************)
DurationRendered == duration # NoDuration

\* C11: for every range whose start is after its end, calculateDuration returns
\* "0 days" and raises no error
C11_ReversedRangeIsZeroDays ==
    (DurationRendered /\ before(durationArgs.end, durationArgs.start))
        => duration = [threw |-> FALSE, text |-> "0 days"]

\* a range that starts at noon and ends at the midnight of the same day has rendered
C11_Witness ==
    /\ DurationRendered
    /\ durationArgs.start = [day |-> 1, ms |-> 43200000]
    /\ durationArgs.end = [day |-> 1, ms |-> 0]
    /\ duration.text = "0 days"

\* C12: for every range with end >= start the result is "<n> working day" for
\* n = 1 and "<n> working days" for every other n, n the number of Monday-Friday
\* days of the inclusive range; a range lying on a weekend gives "0 working days"
C12_WorkingDaysText ==
    (DurationRendered /\ notAfter(durationArgs.start, durationArgs.end))
        => LET n == WeekdaysInRange(durationArgs.start.day, durationArgs.end.day)
           IN  /\ ~duration.threw
               /\ duration.text =
                     (IF n = 1 THEN ToString(n) \o " working day"
                               ELSE ToString(n) \o " working days")
               /\ (\A d \in durationArgs.start.day .. durationArgs.end.day :
                       getDay(d) \in {0, 6})
                     => duration.text = "0 working days"

\* Saturday to Sunday has rendered as "0 working days"
C12_Witness ==
    /\ DurationRendered
    /\ getDay(durationArgs.start.day) = 6
    /\ getDay(durationArgs.end.day) = 0
    /\ durationArgs.end.day = durationArgs.start.day + 1
    /\ duration.text = "0 working days"

(***************************************************************************)
(* Claims about the All Attendance view (checked under SpecStatus)         *)
(***************************************************************************)
ViewRendered == allEmployeeAttendanceData # NoRows

\* the fetched attendance has a record of the employee with a check-in time
HasCheckIn(e) == \E rec \in dateAttendance : rec.userId = e /\ rec.checkInTime # NullTime

\* an approved leave request of the employee covers the day, both ends inclusive
CoveredByApprovedLeave(e, d) ==
    \E request \in allLeaveRequests :
        /\ request.userId = e
        /\ request.status = "approved"
        /\ request.startDate <= d
        /\ d <= request.endDate

\* C13: an employee whose fetched record of the date has a check-in time is
\* "present", whatever approved leave overlaps the date
C13_CheckInMeansPresent ==
    ViewRendered =>
        \A e \in employees :
            HasCheckIn(e) => allEmployeeAttendanceData[e].status = "present"

\* an employee who checked in while on approved leave is shown as present
C13_Witness ==
    /\ ViewRendered
    /\ \E e \in employees :
          /\ HasCheckIn(e)
          /\ CoveredByApprovedLeave(e, selectedDate)
          /\ allEmployeeAttendanceData[e].status = "present"

\* C14: an employee without a check-in (no record, or a record lacking the check-in
\* time) is "on leave" exactly when an approved request of theirs has
\* startDate <= selected date <= endDate, and "absent" otherwise
C14_OnLeaveIffApprovedCovers ==
    ViewRendered =>
        \A e \in employees :
            ~HasCheckIn(e) =>
                allEmployeeAttendanceData[e].status =
                    (IF CoveredByApprovedLeave(e, selectedDate) THEN "on leave" ELSE "absent")

\* on the last day of an approved leave of several days: its owner, who has a
\* record lacking the check-in, is on leave; the other employee, whose own request
\* of that day is pending, is absent
C14_Witness ==
    /\ ViewRendered
    /\ \E request \in allLeaveRequests :
          /\ request.status = "approved"
          /\ request.startDate < request.endDate
          /\ request.endDate = selectedDate
          /\ \E rec \in dateAttendance : rec.userId = request.userId /\ rec.checkInTime = NullTime
          /\ allEmployeeAttendanceData[request.userId].status = "on leave"
    /\ \E request \in allLeaveRequests, e \in employees :
          /\ request.status = "pending"
          /\ request.userId = e
          /\ request.startDate <= selectedDate /\ selectedDate <= request.endDate
          /\ \A rec \in dateAttendance : rec.userId # e
          /\ allEmployeeAttendanceData[e].status = "absent"

\* C23: the table has one row for each employee of the directory, each with one
\* of the statuses present, on leave, absent, and the Present, Absent and On
\* Leave counts sum to the number of employees
C23_StatusesPartitionEmployees ==
    ViewRendered =>
        /\ DOMAIN allEmployeeAttendanceData = employees
        /\ \A e \in employees :
              /\ allEmployeeAttendanceData[e].row.userId = e
              /\ allEmployeeAttendanceData[e].status \in {"present", "on leave", "absent"}
        /\ attendanceSummary.present + attendanceSummary.absent + attendanceSummary.onLeave
              = Cardinality(employees)

\* a day on which the three cards all count somebody
C23_Witness ==
    /\ ViewRendered
    /\ attendanceSummary.present >= 1
    /\ attendanceSummary.onLeave >= 1
    /\ attendanceSummary.absent >= 1

(***************************************************************************)
(* Claims about the leave-request lifecycle (checked under Spec)           *)
(***************************************************************************)
PrivilegedRoles == {"admin", "hr", "manager"}

\* the mutations started by the step
Started == {m \in BagToSet(mutations') : CopiesIn(m, mutations') > CopiesIn(m, mutations)}

\* the mutations settled by the step
Settled == {m \in BagToSet(mutations) : CopiesIn(m, mutations') < CopiesIn(m, mutations)}

\* C1: a request that has reached approved, rejected or canceled never changes
\* status again, whatever approve, reject and cancel operations the pages issue
C1_TerminalStatuses ==
    [][\A r \in RequestIds :
          leaveRequests[r].status \in {"approved", "rejected", "canceled"}
             => leaveRequests'[r].status = leaveRequests[r].status]_vars

\* C2: the Pending Approvals tab and its table are rendered only for a user of role
\* admin, hr or manager, and every approve or reject mutation in flight was
\* started from the page of such a user
C2_RoleGating ==
    /\ \A p \in Pages :
          (tabsTriggerRendered(p, "pending-approvals") \/ pendingApprovalsRendered(p))
             => (user[p] # NoUser /\ RoleOf[user[p]] \in PrivilegedRoles)
    /\ \A m \in BagToSet(mutations) :
          m.kind \in {"approve", "reject"}
             => (user[m.page] # NoUser /\ RoleOf[user[m.page]] \in PrivilegedRoles)

\* an employee's page has its list loaded while an approver's approve is in flight
C2_Witness ==
    \E p, q \in Pages :
        /\ user[p] = "u4" /\ ~staleMy[p] /\ myLeaveRequests[p][1] = "pending"
        /\ RoleOf[user[p]] = "employee"
        /\ \E m \in BagToSet(mutations) : m.page = q /\ m.kind = "approve"

\* C3: approve sends PUT {status: approved, approvedById: invoker} for the chosen
\* row, reject sends PUT {status: rejected, approvedById: invoker}; starting one
\* changes no request, and carrying one out changes only the status and the
\* approvedById of that request
C3_ApproveRejectUpdate ==
    [][/\ \A m \in Started :
            m.kind \in {"approve", "reject"} =>
               /\ m.method = "PUT"
               /\ m.id \in pendingRequests[m.page]
               /\ m.body = [status |-> IF m.kind = "approve" THEN "approved" ELSE "rejected",
                            approvedById |-> user[m.page]]
               /\ user[m.page] # NoUser
               /\ leaveRequests' = leaveRequests
       /\ \A m \in Settled :
            m.kind \in {"approve", "reject"} =>
               \A r \in RequestIds :
                  leaveRequests'[r] # leaveRequests[r] =>
                     /\ r = m.id
                     /\ leaveRequests'[r] =
                           [userId |-> leaveRequests[r].userId,
                            status |-> IF m.kind = "approve" THEN "approved" ELSE "rejected",
                            approvedById |-> m.body.approvedById]]_vars

\* request 1 approved by the admin, request 2 rejected by the hr user
C3_Witness ==
    /\ leaveRequests[1] = [userId |-> "u4", status |-> "approved", approvedById |-> "u1"]
    /\ leaveRequests[2] = [userId |-> "u4", status |-> "rejected", approvedById |-> "u2"]

\* C4: Cancel is offered only on rows displayed as pending; a cancel mutation is a
\* DELETE of a request whose displayed status is pending, never of one displayed
\* as approved or rejected, and carrying it out removes the record
C4_CancelOnlyPending ==
    [][/\ \A m \in Started :
            m.kind = "cancel" =>
               /\ m.method = "DELETE"
               /\ myLeaveRequests[m.page][m.id] = "pending"
       /\ \A m \in Settled :
            (m.kind = "cancel" /\ leaveRequests' # leaveRequests) =>
               /\ leaveRequests'[m.id].status = "canceled"
               /\ \A r \in RequestIds \ {m.id} : leaveRequests'[r] = leaveRequests[r]]_vars

\* a cancel is in flight from a page whose other row is displayed as approved
C4_Witness ==
    \E m \in BagToSet(mutations) :
        /\ m.kind = "cancel"
        /\ \E r \in RequestIds \ {m.id} : myLeaveRequests[m.page][r] = "approved"

\* C5: when a mutation settles, the leave-request queries of its page are
\* invalidated if it succeeded, and if it failed nothing of the page changes but
\* the notification
C5_InvalidateOnSuccess ==
    [][\A p \in Pages :
          toastCount'[p] # toastCount[p] =>
             IF lastToast'[p].variant = "destructive"
             THEN /\ staleMy'[p] = staleMy[p]
                  /\ stalePending'[p] = stalePending[p]
                  /\ myLeaveRequests'[p] = myLeaveRequests[p]
                  /\ pendingRequests'[p] = pendingRequests[p]
                  /\ activeTab'[p] = activeTab[p]
                  /\ user'[p] = user[p]
                  /\ leaveRequests' = leaveRequests
             ELSE /\ staleMy'[p]
                  /\ stalePending'[p]]_vars

\* one page holds fresh lists after a failure, the other stale ones after a success
C5_Witness ==
    \E p, q \in Pages :
        /\ lastToast[p].variant = "destructive" /\ ~staleMy[p] /\ ~stalePending[p]
        /\ pendingRequests[p] # {}
        /\ lastToast[q].variant = "default" /\ staleMy[q] /\ stalePending[q]

(***************************************************************************)
(* Claims about the attendance edit dialog (checked under SpecAttendance)  *)
(***************************************************************************)
TimeFields == {"checkInTime", "checkOutTime"}

\* the updates started by the step
StartedUpdates ==
    {m \in BagToSet(updateMutations') : CopiesIn(m, updateMutations') > CopiesIn(m, updateMutations)}

\* the updates settled by the step
SettledUpdates ==
    {m \in BagToSet(updateMutations) : CopiesIn(m, updateMutations') < CopiesIn(m, updateMutations)}

\* C15: the payload of a submitted edit contains checkInTime iff the form's
\* checkInTime is non-empty and checkOutTime iff the form's checkOutTime is
\* non-empty, each with the time entered; a field that was not sent keeps its
\* stored value when the update is carried out
C15_PartialUpdate ==
    [][/\ \A m \in StartedUpdates :
            \A f \in TimeFields :
               /\ (f \in DOMAIN m.attendanceData) <=> (form.values[f] # "")
               /\ (f \in DOMAIN m.attendanceData) => m.attendanceData[f].time = form.values[f]
       /\ \A m \in SettledUpdates :
            \A rec \in attendance, changed \in attendance' :
               rec.id = changed.id =>
                  \A f \in TimeFields \ DOMAIN m.attendanceData : changed[f] = rec[f]]_vars

\* the admin has emptied the check-in field of a checked-in employee and entered a
\* check-out time: the update in flight carries the check-out time only
C15_Witness ==
    /\ form.values.checkInTime = ""
    /\ editingRecord.checkInTime # NullTime
    /\ \E m \in BagToSet(updateMutations) :
          /\ m.id = editingRecord.id
          /\ DOMAIN m.attendanceData = {"checkOutTime"}

\* C16: no two attendance updates of the page are in flight at the same time
C16_OneUpdateInFlight == BagCardinality(updateMutations) <= 1

\* an update is in flight while the dialog is open on another employee's record
C16_Witness ==
    /\ isEditDialogOpen
    /\ editingRecord # NoRecord
    /\ \E m \in BagToSet(updateMutations) : m.id # editingRecord.id /\ m.id # 0

\* C17: when an update settles, a failure leaves the dialog open, the record
\* selected, the form values and the attendance cache as they were; a success
\* closes the dialog, clears the record, resets the form and invalidates the
\* cache; no settlement but a success closes the dialog
C17_CloseAndResetOnlyOnSuccess ==
    [][SettledUpdates # {} =>
          IF attLastToast'.variant = "destructive"
          THEN /\ isEditDialogOpen' = isEditDialogOpen
               /\ editingRecord' = editingRecord
               /\ form' = form
               /\ attStale' = attStale
               /\ dateAttendance' = dateAttendance
               /\ attendance' = attendance
          ELSE /\ ~isEditDialogOpen'
               /\ editingRecord' = NoRecord
               /\ form'.values = form'.defaultValues
               /\ attStale']_vars

\* after a failed update the dialog is still open on the record, the form holds
\* the entered values and the cache is fresh
C17_Witness ==
    /\ attLastToast.variant = "destructive"
    /\ updateMutations = EmptyBag
    /\ isEditDialogOpen
    /\ editingRecord # NoRecord
    /\ form.values # form.defaultValues
    /\ ~attStale

\* C19: the edit dialog, a record selected for editing and an attendance update
\* in flight occur only on the page of a user of role admin
C19_EditOnlyForAdmin ==
    (isEditDialogOpen \/ editingRecord # NoRecord \/ updateMutations # EmptyBag)
        => (attUser # NoUser /\ RoleOf[attUser] = "admin")

\* the admin has an update in flight
C19_Witness ==
    /\ attUser # NoUser
    /\ RoleOf[attUser] = "admin"
    /\ updateMutations # EmptyBag
    /\ editingRecord # NoRecord

\* C21: a success closes the dialog and clears the editing state only of the
\* record its update was submitted for: when an update succeeds while the dialog
\* is open, the record being edited is the one the update targets
C21_SuccessClosesOwnDialog ==
    [][\A m \in SettledUpdates :
          (attLastToast'.variant = "default" /\ isEditDialogOpen /\ editingRecord # NoRecord)
             => editingRecord.id = m.id]_vars

\* C20: every attendance update in flight targets the id of a record of the
\* fetched attendance of the selected date
C20_UpdateTargetsFetchedRecord ==
    \A m \in BagToSet(updateMutations) : \E rec \in dateAttendance : rec.id = m.id

\* C22: from one leave page at most one approve or reject of a given request is
\* in flight at any time
C22_OneStatusChangePerRequest ==
    \A p \in Pages, r \in RequestIds :
        BagCardinality([m \in {x \in BagToSet(mutations) :
                                  x.page = p /\ x.id = r /\ x.kind \in {"approve", "reject"}}
                          |-> CopiesIn(m, mutations)]) <= 1

(***************************************************************************)
(* Claims about the date selection (checked under SpecCalendar)            *)
(***************************************************************************)
\* C24: the selected date is never after the current day: it starts as today, a
\* selection on the My Attendance tab sets it to today only, a selection on the
\* All Attendance tab to today or a past day, and it is never left without a date
C24_SelectedDateNotInFuture ==
    /\ [](selectedDate \in Days /\ selectedDate <= currentDay)
    /\ [][selectedDate' # selectedDate =>
            /\ selectedDate' <= currentDay
            /\ attTab = "my-attendance" => selectedDate' = currentDay]_vars

\* day 0, chosen on All Attendance, is still selected back on My Attendance
C24_Witness ==
    /\ attTab = "my-attendance"
    /\ attUser # NoUser
    /\ isPrivileged(attUser)
    /\ selectedDate = 0
    /\ currentDay > 1

(***************************************************************************)
\* C18: a per-user query (my leave requests, my attendance) is fetched only with a
\* current user loaded, and a team-wide query (pending leave requests, employee
\* directory of either page, attendance by date, all leave requests) only for a
\* current user of role admin, hr or manager
C18_QueriesEnabledOnlyWithPrerequisites ==
    [][/\ \A p \in Pages :
            /\ (staleMy[p] /\ ~staleMy'[p]) => user[p] # NoUser
            /\ ((stalePending[p] /\ ~stalePending'[p]) \/ leaveEmployees'[p] # leaveEmployees[p])
                  => (user[p] # NoUser /\ RoleOf[user[p]] \in PrivilegedRoles)
       /\ (myAttendanceStale /\ ~myAttendanceStale') => attUser # NoUser
       /\ \/ attStale /\ ~attStale'
          \/ employees' # employees
          \/ allLeaveStale /\ ~allLeaveStale'
          => (attUser # NoUser /\ RoleOf[attUser] \in PrivilegedRoles)]_vars

\* an employee's pages hold the per-user data only, a manager's pages all of it
C18_Witness ==
    /\ \E p, q \in Pages :
          /\ user[p] = "u4" /\ ~staleMy[p] /\ stalePending[p] /\ leaveEmployees[p] = {}
          /\ user[q] = "u3" /\ ~staleMy[q] /\ ~stalePending[q] /\ leaveEmployees[q] # {}
    /\ attUser = "u3"
    /\ ~myAttendanceStale /\ ~attStale /\ ~allLeaveStale /\ employees # {}

\* the messages the error of a failed request can carry
FailureMessages == ErrorMessages \cup {NotFoundMessage}

CarriesMessage(t) == \E i \in DOMAIN t.description : t.description[i] \in FailureMessages

\* C6: every mutation that settles surfaces exactly one notification, and the
\* notification of a failed one (approve, reject, cancel, update attendance)
\* contains the message of the error
C6_ErrorToastCarriesMessage ==
    [][/\ \A p \in Pages :
            /\ (\E m \in Settled : m.page = p) => toastCount'[p] = toastCount[p] + 1
            /\ (toastCount'[p] # toastCount[p] /\ lastToast'[p].variant = "destructive")
                  => CarriesMessage(lastToast'[p])
       /\ BagCardinality(updateMutations') < BagCardinality(updateMutations)
             => attToastCount' = attToastCount + 1
       /\ (attToastCount' # attToastCount /\ attLastToast'.variant = "destructive")
             => CarriesMessage(attLastToast')]_vars

============================================================================
